---- MODULE Spec2Model ----
(***************************************************************************)
(* A model of the s2n handshake driver (tls/s2n_handshake_io.c) and of the *)
(* ServerHello handlers (tls/s2n_server_hello.c).                          *)
(*                                                                         *)
(* One connection is driven by repeated invocations of s2n_negotiate.      *)
(* Bytes are small integers; a stuffer is a record [buf, rd] (the written  *)
(* bytes and the read cursor); a digest is modelled by the sequence of the *)
(* bytes it has absorbed.                                                  *)
(***************************************************************************)
EXTENDS Integers, Sequences, FiniteSets, TLC

VARIABLES
    pc,             \* position of the caller / of s2n_negotiate
    ret,            \* outcome of the last s2n_negotiate return
    blocked,        \* the caller's s2n_blocked_status
    mode,           \* conn->mode
    state,          \* conn->handshake.state
    next_state,     \* conn->handshake.next_state
    io,             \* conn->handshake.io
    inb,            \* conn->in (unread bytes of the current inbound record)
    header_in,      \* conn->header_in
    in_status,      \* conn->in_status
    out,            \* conn->out: records written and not yet flushed
    closed,         \* conn->closed
    hashes,         \* the six transcript digests
    ver,            \* protocol version fields, latch, pending parameters
    max_payload,    \* s2n_record_max_write_payload_size(conn)
    wire,           \* records flushed to the transport
    peer_q,         \* handshake bytes the peer has written, not yet delivered
    g               \* history variables (observations only)

vars == << pc, ret, blocked, mode, state, next_state, io, inb, header_in,
           in_status, out, closed, hashes, ver, max_payload, wire, peer_q, g >>

(***************************************************************************)
(* Bounds of the model.                                                    *)
(***************************************************************************)
\* longest body of a message a handler writes or the peer sends
MaxBody == 2
\* the record payload limit; smaller than a message with a body of MaxBody bytes
SmallPayload == 5
\* handler invocations of the write driver per run
MaxBuilds == 2
\* handshake messages the peer writes per run
MaxPeerMsgs == 2
\* records of other types (and SSLv2 records) delivered per run
MaxRecords == 2
\* the prefix of a message within which records are cut at every byte
MaxSplit == 7
\* the same budgets for a run with a well-behaved peer and handlers
LiveMaxBuilds == 6
LiveMaxPeerMsgs == 5
\* a record payload limit above the length of every message of the model
LargePayload == 64

(***************************************************************************)
(* Wire constants.                                                         *)
(***************************************************************************)
TLS_CHANGE_CIPHER_SPEC == 20
TLS_ALERT == 21
TLS_HANDSHAKE == 22
TLS_APPLICATION_DATA == 23
TLS_HEARTBEAT == 24
TLS_HANDSHAKE_HEADER_LENGTH == 4
S2N_MAXIMUM_HANDSHAKE_MESSAGE_LENGTH == 65536

TLS_HELLO_REQUEST == 0
TLS_CLIENT_HELLO == 1
TLS_SERVER_HELLO == 2
TLS_SERVER_CERT == 11
TLS_SERVER_KEY == 12
TLS_SERVER_CERT_REQ == 13
TLS_SERVER_HELLO_DONE == 14
TLS_CLIENT_CERT == 11
TLS_CLIENT_CERT_VERIFY == 15
TLS_CLIENT_KEY == 16
TLS_CLIENT_FINISHED == 20
TLS_SERVER_FINISHED == 20
TLS_SERVER_CERT_STATUS == 22

S2N_TLS_COMPRESSION_METHOD_NULL == 0
S2N_TLS_PROTOCOL_VERSION_LEN == 2
S2N_TLS_RANDOM_DATA_LEN == 32
S2N_TLS_SESSION_ID_LEN == 32
S2N_TLS_CIPHER_SUITE_LEN == 2
S2N_SSLv2 == 20
S2N_SSLv3 == 30
S2N_TLS10 == 31
S2N_TLS11 == 32
S2N_TLS12 == 33

S2N_SERVER == 0
S2N_CLIENT == 1

(***************************************************************************)
(* enum handshake_state, in the order of the rows of state_machine.        *)
(***************************************************************************)
CLIENT_HELLO == 0
SERVER_HELLO == 1
SERVER_CERT == 2
SERVER_CERT_STATUS == 3
SERVER_KEY == 4
SERVER_CERT_REQ == 5
SERVER_HELLO_DONE == 6
CLIENT_CERT == 7
CLIENT_KEY == 8
CLIENT_CERT_VERIFY == 9
CLIENT_CHANGE_CIPHER_SPEC == 10
CLIENT_FINISHED == 11
SERVER_CHANGE_CIPHER_SPEC == 12
SERVER_FINISHED == 13
HANDSHAKE_OVER == 14

States == CLIENT_HELLO .. HANDSHAKE_OVER

Row(rt, mt, w, hs, hc) ==
    [record_type |-> rt, message_type |-> mt, writer |-> w, handler |-> << hs, hc >>]

\* handler[1] is handler[S2N_SERVER], handler[2] is handler[S2N_CLIENT]
state_machine ==
    << Row(TLS_HANDSHAKE, TLS_CLIENT_HELLO, "C", "s2n_client_hello_recv", "s2n_client_hello_send"),
       Row(TLS_HANDSHAKE, TLS_SERVER_HELLO, "S", "s2n_server_hello_send", "s2n_server_hello_recv"),
       Row(TLS_HANDSHAKE, TLS_SERVER_CERT, "S", "s2n_server_cert_send", "s2n_server_cert_recv"),
       Row(TLS_HANDSHAKE, TLS_SERVER_CERT_STATUS, "S", "s2n_server_status_send", "s2n_server_status_recv"),
       Row(TLS_HANDSHAKE, TLS_SERVER_KEY, "S", "s2n_server_key_send", "s2n_server_key_recv"),
       Row(TLS_HANDSHAKE, TLS_SERVER_CERT_REQ, "S", "NULL", "NULL"),
       Row(TLS_HANDSHAKE, TLS_SERVER_HELLO_DONE, "S", "s2n_server_done_send", "s2n_server_done_recv"),
       Row(TLS_HANDSHAKE, TLS_CLIENT_CERT, "C", "NULL", "NULL"),
       Row(TLS_HANDSHAKE, TLS_CLIENT_KEY, "C", "s2n_client_key_recv", "s2n_client_key_send"),
       Row(TLS_HANDSHAKE, TLS_CLIENT_CERT_VERIFY, "C", "NULL", "NULL"),
       Row(TLS_CHANGE_CIPHER_SPEC, 0, "C", "s2n_client_ccs_recv", "s2n_client_ccs_send"),
       Row(TLS_HANDSHAKE, TLS_CLIENT_FINISHED, "C", "s2n_client_finished_recv", "s2n_client_finished_send"),
       Row(TLS_CHANGE_CIPHER_SPEC, 0, "S", "s2n_server_ccs_send", "s2n_server_ccs_recv"),
       Row(TLS_HANDSHAKE, TLS_SERVER_FINISHED, "S", "s2n_server_finished_send", "s2n_server_finished_recv"),
       Row(TLS_APPLICATION_DATA, 0, "B", "NULL", "NULL") >>

\* state_machine[s] of the C source (0-based index)
Action(s) == state_machine[s + 1]

\* state_machine[s].handler[m]
HandlerOf(s, m) == Action(s).handler[m + 1]

\* char this = 'S'; if (conn->mode == S2N_CLIENT) this = 'C';
This(m) == IF m = S2N_CLIENT THEN "C" ELSE "S"

ClientStates ==
    { CLIENT_HELLO, CLIENT_CERT, CLIENT_KEY, CLIENT_CERT_VERIFY,
      CLIENT_CHANGE_CIPHER_SPEC, CLIENT_FINISHED }

\* the value of `valid' in validate_send_state
validate_send_state(s, m) ==
    IF s \in ClientStates THEN m = S2N_CLIENT
    ELSE IF s # HANDSHAKE_OVER THEN m = S2N_SERVER
    ELSE FALSE

\* the value of `valid' in validate_recv_state
validate_recv_state(s, m) ==
    IF s \in ClientStates THEN m = S2N_SERVER
    ELSE IF s # HANDSHAKE_OVER THEN m = S2N_CLIENT
    ELSE FALSE

\* a validator that accepts every pair of states
AnyTransition(s, n) == TRUE

\* the value of `valid' in validate_transition
validate_transition(s, n) ==
    \/ s = CLIENT_HELLO /\ n = SERVER_HELLO
    \/ s = SERVER_HELLO /\ n = SERVER_CERT
    \/ s = SERVER_HELLO /\ n = SERVER_KEY
    \/ s = SERVER_HELLO /\ n = SERVER_CERT_REQ
    \/ s = SERVER_HELLO /\ n = SERVER_HELLO_DONE
    \/ s = SERVER_CERT /\ n = SERVER_KEY
    \/ s = SERVER_CERT /\ n = SERVER_CERT_REQ
    \/ s = SERVER_CERT /\ n = SERVER_HELLO_DONE
    \/ s = SERVER_KEY /\ n = SERVER_CERT_REQ
    \/ s = SERVER_KEY /\ n = SERVER_HELLO_DONE
    \/ s = SERVER_HELLO_DONE /\ n = CLIENT_CERT
    \/ s = SERVER_HELLO_DONE /\ n = CLIENT_KEY
    \/ s = CLIENT_CERT /\ n = CLIENT_KEY
    \/ s = CLIENT_KEY /\ n = CLIENT_CERT_VERIFY
    \/ s = CLIENT_KEY /\ n = CLIENT_CHANGE_CIPHER_SPEC
    \/ s = CLIENT_CERT_VERIFY /\ n = CLIENT_CHANGE_CIPHER_SPEC
    \/ s = CLIENT_CHANGE_CIPHER_SPEC /\ n = CLIENT_FINISHED
    \/ s = CLIENT_FINISHED /\ n = SERVER_CHANGE_CIPHER_SPEC
    \/ s = SERVER_CHANGE_CIPHER_SPEC /\ n = SERVER_FINISHED
    \/ s = SERVER_FINISHED /\ n = HANDSHAKE_OVER
    \/ s = HANDSHAKE_OVER

(***************************************************************************)
(* Bytes, stuffers and digests.                                            *)
(***************************************************************************)
Min(a, b) == IF a < b THEN a ELSE b

Take(s, n) == SubSeq(s, 1, n)
Drop(s, n) == SubSeq(s, n + 1, Len(s))

Wiped == [buf |-> << >>, rd |-> 0]

\* s2n_stuffer_data_available
Avail(st) == Len(st.buf) - st.rd

\* the unread bytes of a stuffer
Unread(st) == Drop(st.buf, st.rd)

\* s2n_stuffer_write_bytes
StufferWrite(st, bytes) == [st EXCEPT !.buf = @ \o bytes]

\* s2n_stuffer_skip_read / the cursor move of a successful read of n bytes
StufferSkip(st, n) == [st EXCEPT !.rd = @ + n]

\* s2n_stuffer_reread
StufferReread(st) == [st EXCEPT !.rd = 0]

\* big-endian encodings
Uint24(n) == << n \div 65536, (n \div 256) % 256, n % 256 >>
Uint32(n) == << n \div 16777216, (n \div 65536) % 256, (n \div 256) % 256, n % 256 >>
FromUint24(b) == b[1] * 65536 + b[2] * 256 + b[3]
FromUint16(b) == b[1] * 256 + b[2]

Repeat(b, n) == [i \in 1 .. n |-> b]

HashNames ==
    { "client_md5", "client_sha1", "client_sha256",
      "server_md5", "server_sha1", "server_sha256" }

s2n_conn_update_handshake_hashes(h, data) == [d \in HashNames |-> h[d] \o data]

\* s2n_handshake_write_header: the type and a blank 3-byte length
s2n_handshake_write_header(st, message_type) ==
    StufferWrite(st, << message_type, 0, 0, 0 >>)

\* s2n_handshake_finish_header: backpatch the length of the message that
\* starts at the read cursor with the number of bytes that follow its header
s2n_handshake_finish_header(st) ==
    LET len == Uint24(Avail(st) - TLS_HANDSHAKE_HEADER_LENGTH)
    IN  [st EXCEPT !.buf = [i \in 1 .. Len(st.buf) |->
                                IF i \in (st.rd + 2) .. (st.rd + 4)
                                THEN len[i - st.rd - 1]
                                ELSE st.buf[i]]]

(***************************************************************************)
(* The ServerHello handlers.  c holds the connection's version fields and  *)
(* pending parameters, st is handshake.io, ns is handshake.next_state.     *)
(* A result is [r, ver, io, next_state, ub].                               *)
(***************************************************************************)
Result(r, c, st, ns) == [r |-> r, ver |-> c, io |-> st, next_state |-> ns, ub |-> FALSE]

\* conn->pending.signature_digest_alg after the version is known
SignatureDigestAlg(v) == IF v = S2N_TLS12 THEN "S2N_HASH_SHA1" ELSE "S2N_HASH_MD5_SHA1"

\* lines 64-101 of s2n_server_hello_recv: everything after the version checks.
\* offered: the suites s2n_set_cipher_as_client accepts; ext_ok: the outcome
\* of s2n_server_extensions_recv.
ServerHelloRecvRest(c, st, ns, offered, ext_ok) ==
    IF Avail(st) < S2N_TLS_RANDOM_DATA_LEN + 1 THEN
        \* read_bytes(server_random) or read_uint8(session_id_len) fails
        IF Avail(st) < S2N_TLS_RANDOM_DATA_LEN THEN Result(-1, c, st, ns)
        ELSE Result(-1, [c EXCEPT !.server_random = Take(Unread(st), S2N_TLS_RANDOM_DATA_LEN)],
                    StufferSkip(st, S2N_TLS_RANDOM_DATA_LEN), ns)
    ELSE
    LET c1 == [c EXCEPT !.server_random = Take(Unread(st), S2N_TLS_RANDOM_DATA_LEN)]
        session_id_len == Unread(st)[S2N_TLS_RANDOM_DATA_LEN + 1]
        st1 == StufferSkip(st, S2N_TLS_RANDOM_DATA_LEN + 1)
    IN  IF session_id_len > S2N_TLS_SESSION_ID_LEN THEN Result(-1, c1, st1, ns)
        ELSE IF Avail(st1) < session_id_len THEN Result(-1, c1, st1, ns)
        ELSE
        LET st2 == StufferSkip(st1, session_id_len)
        IN  IF Avail(st2) < S2N_TLS_CIPHER_SUITE_LEN THEN Result(-1, c1, st2, ns)
            ELSE
            LET cipher_suite_wire == Take(Unread(st2), S2N_TLS_CIPHER_SUITE_LEN)
                st3 == StufferSkip(st2, S2N_TLS_CIPHER_SUITE_LEN)
            IN  IF cipher_suite_wire \notin offered THEN Result(-1, c1, st3, ns)
                ELSE
                LET c2 == [c1 EXCEPT !.cipher_suite = cipher_suite_wire]
                IN  IF Avail(st3) < 1 THEN Result(-1, c2, st3, ns)
                    ELSE
                    LET compression_method == Unread(st3)[1]
                        st4 == StufferSkip(st3, 1)
                    IN  IF compression_method # S2N_TLS_COMPRESSION_METHOD_NULL
                        THEN Result(-1, c2, st4, ns)
                        ELSE IF Avail(st4) < 2 THEN Result(0, c2, st4, SERVER_CERT)
                        ELSE
                        LET extensions_size == FromUint16(Take(Unread(st4), 2))
                            st5 == StufferSkip(st4, 2)
                        IN  IF extensions_size > Avail(st5) THEN Result(-1, c2, st5, ns)
                            ELSE IF ~ext_ok
                            THEN Result(-1, c2, StufferSkip(st5, extensions_size), ns)
                            ELSE Result(0, c2, StufferSkip(st5, extensions_size), SERVER_CERT)

\* the version the two wire bytes denote, in the width of the uint8_t field
WireVersion(b) == (b[1] * 10 + b[2]) % 256

\* a client that takes whatever version the server names
AnyVersionAccepted(spv, accepted) == FALSE

\* line 47 of s2n_server_hello_recv: the server names a version above the one
\* this connection has accepted so far
AboveAccepted(spv, accepted) == spv > accepted

\* lines 43-57 of s2n_server_hello_recv: the version is read, compared with
\* the version accepted so far, latched, and then checked for sanity
s2n_server_hello_recv(c, st, ns, offered, ext_ok) ==
    IF Avail(st) < S2N_TLS_PROTOCOL_VERSION_LEN THEN Result(-1, c, st, ns)
    ELSE
    LET spv == WireVersion(Take(Unread(st), S2N_TLS_PROTOCOL_VERSION_LEN))
        st1 == StufferSkip(st, S2N_TLS_PROTOCOL_VERSION_LEN)
        c1 == [c EXCEPT !.server_protocol_version = spv]
    IN  IF AboveAccepted(spv, c.actual_protocol_version) THEN Result(-1, c1, st1, ns)
        ELSE
        LET c2 == [c1 EXCEPT !.actual_protocol_version = spv,
                             !.established = TRUE]
        IN  IF spv < S2N_SSLv3 \/ spv > S2N_TLS12 THEN Result(-1, c2, st1, ns)
            ELSE ServerHelloRecvRest(
                     [c2 EXCEPT !.signature_digest_alg = SignatureDigestAlg(spv)],
                     st1, ns, offered, ext_ok)

\* a server that always answers with its own version
SendServerVersion(c) == c.server_protocol_version

\* lines 125-127 of s2n_server_hello_send
SendVersion(c) ==
    IF c.client_protocol_version < c.server_protocol_version
    THEN c.client_protocol_version
    ELSE c.actual_protocol_version

\* s2n_server_hello_send.  gmt: time(NULL); rnd: the 28 bytes of
\* s2n_get_public_random_data; ext: what s2n_server_extensions_send writes
s2n_server_hello_send(c, st, ns, gmt, rnd, ext) ==
    LET server_random == Uint32(gmt) \o rnd
        v == SendVersion(c)
        protocol_version == << v \div 10, v % 10 >>
        c1 == [c EXCEPT !.server_random = server_random,
                        !.actual_protocol_version = v,
                        !.signature_digest_alg = SignatureDigestAlg(v),
                        !.established = TRUE]
        body == protocol_version \o server_random \o << 0 >> \o c.cipher_suite
                    \o << S2N_TLS_COMPRESSION_METHOD_NULL >> \o ext
    IN  Result(0, c1, StufferWrite(st, body), SERVER_CERT)

(***************************************************************************)
(* The other per-message handlers and the values the environment supplies. *)
(***************************************************************************)
Times == { 16909060 }
RandomTails == { Repeat(7, 28) }
SentExtensions == { << >> }
OfferedSuites == { << 0, 47 >> }
ClientVersions == { S2N_TLS10, S2N_TLS12 }

SendHandlers ==
    { "s2n_client_hello_send", "s2n_server_hello_send", "s2n_server_cert_send",
      "s2n_server_status_send", "s2n_server_key_send", "s2n_server_done_send",
      "s2n_client_key_send", "s2n_client_ccs_send", "s2n_client_finished_send",
      "s2n_server_ccs_send", "s2n_server_finished_send" }

CcsSendHandlers == { "s2n_client_ccs_send", "s2n_server_ccs_send" }

HelloRecvHandlers == { "s2n_client_hello_recv", "s2n_sslv2_client_hello_recv" }

\* the body a sending handler appends: n bytes, all different
BodyOf(n) == [i \in 1 .. n |-> 100 + i]

WrittenBodies(h) ==
    IF h \in CcsSendHandlers THEN { << 1 >> } ELSE { BodyOf(n) : n \in { 0, MaxBody } }

\* the next_state a handler may leave behind when it succeeds
\* the states a handler serves; the SSLv2 ClientHello handler is called by
\* name in CLIENT_HELLO (line 242)
HandlerStates(h) ==
    { s \in States : \E m \in { S2N_SERVER, S2N_CLIENT } : HandlerOf(s, m) = h }
    \cup (IF h = "s2n_sslv2_client_hello_recv" THEN { CLIENT_HELLO } ELSE { })

\* the next_state a handler may leave behind when it succeeds: a successor the
\* validator accepts for a state the handler serves, or HANDSHAKE_OVER
NextStatesOf(h) ==
    { n \in States : \E s \in HandlerStates(h) : validate_transition(s, n) }
    \cup { HANDSHAKE_OVER }

\* a call through a null function pointer: the process dies (ub), or the call
\* comes back with either result and the connection untouched
NullCall(c, st, ns) ==
    { [Result(0, c, st, ns) EXCEPT !.ub = TRUE], Result(-1, c, st, ns), Result(0, c, st, ns) }

\* every outcome of the call state_machine[..].handler[..](conn)
HandlerOutcomes(h, c, st, ns) ==
    IF h = "NULL" THEN NullCall(c, st, ns)
    ELSE IF h = "s2n_server_hello_recv" THEN
        { s2n_server_hello_recv(c, st, ns, OfferedSuites, e) : e \in BOOLEAN }
    ELSE IF h = "s2n_server_hello_send" THEN
        { s2n_server_hello_send(c, st, ns, t, r, e) :
            t \in Times, r \in RandomTails, e \in SentExtensions }
    ELSE IF h \in SendHandlers THEN
        { Result(-1, c, st, ns) } \cup
        { Result(0, c, StufferWrite(st, b), n) : b \in WrittenBodies(h), n \in NextStatesOf(h) }
    ELSE IF h \in HelloRecvHandlers THEN
        { Result(-1, c, st, ns) } \cup
        { Result(0, [c EXCEPT !.client_protocol_version = v], st, n) :
            v \in ClientVersions, n \in NextStatesOf(h) }
    ELSE
        { Result(-1, c, st, ns) } \cup { Result(0, c, st, n) : n \in NextStatesOf(h) }

\* the outcomes in which a handler that exists succeeds and leaves a
\* next_state the validator accepts from s; a call through a NULL pointer is
\* not a handler and keeps all its outcomes
WellBehaved(h, s, outcomes) ==
    IF h = "NULL" THEN outcomes
    ELSE { res \in outcomes : res.r = 0 /\ validate_transition(s, res.next_state) }

\* the outcomes of the handler call of state s: any, or only the well-behaved
Outcomes(live, h, s, c, st, ns) ==
    IF live THEN WellBehaved(h, s, HandlerOutcomes(h, c, st, ns))
    ELSE HandlerOutcomes(h, c, st, ns)

(***************************************************************************)
(* History variables.                                                      *)
(***************************************************************************)
NoTx == [orig |-> << >>, sent |-> << >>, builds |-> 0, wb |-> FALSE]

GInit ==
    [ expect |-> << >>,       \* handshake bytes written to / reassembled from records
      gcur |-> << >>,         \* the received handshake bytes of the message in progress
      asserts |-> {},         \* the __CPROVER_assert calls that failed
      assigned |-> << >>,     \* (state, next_state) of the last state assignment
      advances |-> 0,         \* assignments state := next_state made so far
      tx |-> NoTx,            \* the outbound message in progress
      tx_last |-> NoTx,       \* the last outbound message that advanced the state
      n_builds |-> 0,
      n_peer |-> 0,
      n_rec |-> 0, sslv2 |-> FALSE, fell |-> 0,
      step |-> "none",        \* the step s2n_negotiate ran last
      delay |-> FALSE,        \* s2n_sleep_delay was executed
      rd_fail |-> "none",     \* the read path whose handler failed
      role_bad |-> FALSE,     \* received bytes were processed in a state the local role writes
      null_called |-> FALSE,  \* a NULL handler was called
      clean |-> TRUE,         \* no CCS / SSLv2 record was taken inside a handshake message
      \* the last call of read_full_handshake_message: its result, the messages
      \* the bytes it consumed complete, the buffer it left for the handler
      rx |-> [r |-> 1, gdone |-> << >>, handled |-> << >>],
      msgs |-> 0,             \* handshake messages received completely
      calls |-> 0,            \* handler calls on reassembled messages
      n_other |-> 0,          \* alert records and records of unsupported types received
      other_mid |-> FALSE,    \* such a record arrived between two fragments of a message
      alert_failed |-> FALSE, \* s2n_process_alert_fragment returned an error
      wb_reads |-> 0,         \* read steps in a row that found no record (counted to 2)
      rt |-> << >> ]          \* the sending side of a ServerHello round trip

VerInit ==
    [ client_protocol_version |-> S2N_TLS12,
      server_protocol_version |-> S2N_TLS12,
      actual_protocol_version |-> S2N_TLS12,
      established |-> FALSE,
      signature_digest_alg |-> "S2N_HASH_MD5_SHA1",
      server_random |-> Repeat(0, S2N_TLS_RANDOM_DATA_LEN),
      cipher_suite |-> << 0, 47 >> ]

Init ==
    /\ pc = "idle"
    /\ ret = "none"
    /\ blocked = "S2N_NOT_BLOCKED"
    /\ mode \in { S2N_SERVER, S2N_CLIENT }
    /\ state = CLIENT_HELLO
    /\ next_state = CLIENT_HELLO
    /\ io = Wiped
    /\ inb = << >>
    /\ header_in = << >>
    /\ in_status = "ENCRYPTED"
    /\ out = << >>
    /\ closed = FALSE
    /\ hashes = [d \in HashNames |-> << >>]
    /\ ver = VerInit
    /\ max_payload = SmallPayload
    /\ wire = << >>
    /\ peer_q = << >>
    /\ g = GInit

(***************************************************************************)
(* s2n_negotiate                                                           *)
(***************************************************************************)
\* a driver that reports every step as a read
AlwaysBlockedOnRead(w, this) == "S2N_BLOCKED_ON_READ"

\* the blocked status s2n_negotiate stores before the step of a state
BlockedFor(w, this) ==
    IF w = this THEN "S2N_BLOCKED_ON_WRITE" ELSE "S2N_BLOCKED_ON_READ"

\* the loop condition of s2n_negotiate
HandshakeRunning(s) == Action(s).writer # "B"

\* the caller invokes s2n_negotiate (again after a would-block, never after an error)
CallNegotiate ==
    /\ pc = "idle"
    /\ ret \in { "none", "would_block", "ok" }
    /\ pc' = "loop"
    /\ ret' = "running"
    /\ UNCHANGED << blocked, mode, state, next_state, io, inb, header_in, in_status,
                    out, closed, hashes, ver, max_payload, wire, peer_q, g >>

\* the loop ends: *blocked = S2N_NOT_BLOCKED; return 0
NegotiateReturn ==
    /\ pc = "loop"
    /\ ~HandshakeRunning(state)
    /\ blocked' = "S2N_NOT_BLOCKED"
    /\ ret' = "ok"
    /\ pc' = "idle"
    /\ UNCHANGED << mode, state, next_state, io, inb, header_in, in_status,
                    out, closed, hashes, ver, max_payload, wire, peer_q, g >>

\* GUARD(s2n_flush(conn, blocked)) with the transport not ready
NegotiateFlushBlocked ==
    /\ pc = "loop"
    /\ HandshakeRunning(state)
    /\ out # << >>
    /\ blocked' = "S2N_BLOCKED_ON_WRITE"
    /\ ret' = "would_block"
    /\ pc' = "idle"
    /\ g' = [g EXCEPT !.step = "flush"]
    /\ UNCHANGED << mode, state, next_state, io, inb, header_in, in_status,
                    out, closed, hashes, ver, max_payload, wire, peer_q >>

\* the flush succeeds; blocked is set and the step of the state is entered
NegotiateDispatch ==
    /\ pc = "loop"
    /\ HandshakeRunning(state)
    /\ wire' = wire \o out
    /\ out' = << >>
    /\ blocked' = BlockedFor(Action(state).writer, This(mode))
    /\ pc' = IF Action(state).writer = This(mode) THEN "write" ELSE "read"
    /\ g' = [g EXCEPT !.step = IF Action(state).writer = This(mode) THEN "write" ELSE "read"]
    /\ UNCHANGED << ret, mode, state, next_state, io, inb, header_in, in_status,
                    closed, hashes, ver, max_payload, peer_q >>

\* back in the loop after a step returned 0: the scratch buffer is released
\* when the handshake has just ended
AfterStep(s, st) == IF Action(s).writer = "B" THEN Wiped ELSE st

(***************************************************************************)
(* handshake_write_io                                                      *)
(***************************************************************************)
\* the condition under which the write driver builds a message
BuildsMessage(o, st) == Len(o) = 0

\* the size of the next fragment
FragmentSize(avail, mps) == IF avail > mps THEN mps ELSE avail

\* whether the transcript absorbs the payload of a written record
HashesRecord(record_type) == record_type = TLS_HANDSHAKE

\* the state after the header, the handler and the finished header
\* (lines 98-106), for one outcome res of the handler
Built(res, record_type) ==
    IF record_type = TLS_HANDSHAKE THEN s2n_handshake_finish_header(res.io) ELSE res.io

WriteOutcomes(live) ==
    LET record_type == Action(state).record_type
        io1 == IF record_type = TLS_HANDSHAKE
               THEN s2n_handshake_write_header(io, Action(state).message_type)
               ELSE io
    IN  IF BuildsMessage(out, io)
        THEN Outcomes(live, HandlerOf(state, mode), state, ver, io1, next_state)
        ELSE { [Result(0, ver, io, next_state) EXCEPT !.ub = FALSE] }

\* one call of handshake_write_io; live: the handler is well-behaved and the
\* transport accepts the record
WriteIo(live) ==
    /\ pc = "write"
    /\ g.n_builds < (IF live THEN LiveMaxBuilds ELSE MaxBuilds)
    /\ \E res \in WriteOutcomes(live), flushed \in (IF live THEN { TRUE } ELSE BOOLEAN) :
        LET record_type == Action(state).record_type
            built == BuildsMessage(out, io)
            h == HandlerOf(state, mode)
            sendok == validate_send_state(state, mode)
            g0 == [g EXCEPT !.asserts = IF sendok THEN @ ELSE @ \cup { "send" },
                            !.n_builds = IF built THEN @ + 1 ELSE @,
                            !.null_called = @ \/ (built /\ h = "NULL"),
                            !.tx.builds = IF built THEN @ + 1 ELSE @]
        IN  IF res.ub THEN
                /\ pc' = "crashed"
                /\ g' = g0
                /\ UNCHANGED << ret, blocked, mode, state, next_state, io, inb, header_in,
                                in_status, out, closed, hashes, ver, max_payload, wire, peer_q >>
            ELSE IF res.r < 0 THEN
                \* GUARD(handler): return -1
                /\ pc' = "idle"
                /\ ret' = "error"
                /\ io' = res.io
                /\ ver' = res.ver
                /\ next_state' = res.next_state
                /\ g' = g0
                /\ UNCHANGED << blocked, mode, state, inb, header_in, in_status, out,
                                closed, hashes, max_payload, wire, peer_q >>
            ELSE
                LET io2 == IF built THEN Built(res, record_type) ELSE res.io
                    size == FragmentSize(Avail(io2), max_payload)
                    frag == Take(Unread(io2), size)
                    io3 == StufferSkip(io2, size)
                    out1 == Append(out, [type |-> record_type, payload |-> frag])
                    hashes1 == IF HashesRecord(record_type)
                               THEN s2n_conn_update_handshake_hashes(hashes, frag)
                               ELSE hashes
                    drained == Avail(io3) = 0
                    g1 == [g0 EXCEPT
                             !.expect = IF record_type = TLS_HANDSHAKE THEN @ \o frag ELSE @,
                             !.tx.orig = IF built /\ g.tx.builds = 0 THEN Unread(io2) ELSE @,
                             !.tx.sent = @ \o frag,
                             !.tx.wb = @ \/ ~flushed]
                IN  /\ ver' = res.ver
                    /\ next_state' = res.next_state
                    /\ hashes' = hashes1
                    /\ IF ~flushed THEN
                           \* GUARD(s2n_flush(conn, &blocked)): return -1
                           /\ out' = out1
                           /\ io' = io3
                           /\ pc' = "idle"
                           /\ ret' = "would_block"
                           /\ g' = g1
                           /\ UNCHANGED << blocked, mode, state, inb, header_in, in_status,
                                           closed, max_payload, wire, peer_q >>
                       ELSE IF drained THEN
                           /\ wire' = wire \o out1
                           /\ out' = << >>
                           /\ state' = res.next_state
                           /\ io' = AfterStep(res.next_state, Wiped)
                           /\ pc' = "loop"
                           /\ g' = [g1 EXCEPT
                                      !.asserts = IF validate_transition(state, res.next_state)
                                                  THEN @ ELSE @ \cup { "transition" },
                                      !.assigned = << state, res.next_state >>,
                                      !.advances = @ + 1,
                                      !.tx_last = g1.tx,
                                      !.tx = NoTx]
                           /\ UNCHANGED << ret, blocked, mode, inb, header_in, in_status,
                                           closed, max_payload, peer_q >>
                       ELSE
                           /\ wire' = wire \o out1
                           /\ out' = << >>
                           /\ io' = AfterStep(state, io3)
                           /\ pc' = "loop"
                           /\ g' = g1
                           /\ UNCHANGED << ret, blocked, mode, state, inb, header_in,
                                           in_status, closed, max_payload, peer_q >>

handshake_write_io == WriteIo(FALSE)

(***************************************************************************)
(* The peer and the record layer.                                          *)
(***************************************************************************)
PeerVersions == { S2N_SSLv2, S2N_TLS12 }

\* the first n bytes of a body that starts with the protocol version v
VersionBody(v, n) == Take(<< v \div 10, v % 10 >> \o Repeat(7, n), n)

\* a handshake message: 1-byte type, 3-byte length, body
Message(t, body) == << t >> \o Uint24(Len(body)) \o body

\* a complete ServerHello body, as a peer's s2n_server_hello_send writes it
PeerHello(v, suite) ==
    s2n_server_hello_send(
        [VerInit EXCEPT !.client_protocol_version = v, !.cipher_suite = suite],
        Wiped, SERVER_HELLO, 16909060, Repeat(7, 28), << >>).io.buf

PeerMessages ==
    { Message(TLS_CLIENT_HELLO, VersionBody(S2N_TLS12, n)) : n \in { 0, MaxBody } }
    \cup { Message(TLS_SERVER_HELLO, VersionBody(v, MaxBody)) : v \in PeerVersions }
    \cup { Message(TLS_SERVER_HELLO, PeerHello(S2N_TLS12, << 0, 47 >>)) }
    \cup { Message(TLS_SERVER_CERT, << >>) }
    \cup { << TLS_SERVER_HELLO >> \o Uint24(S2N_MAXIMUM_HANDSHAKE_MESSAGE_LENGTH + 1) }

CcsPayloads == { << 1 >>, << 1, 1 >> }
OtherRecordTypes == { TLS_ALERT, TLS_HEARTBEAT }
Sslv2ReportedTypes ==
    { TLS_CHANGE_CIPHER_SPEC, TLS_ALERT, TLS_HANDSHAKE, TLS_APPLICATION_DATA, TLS_CLIENT_HELLO }
Sslv2Body == << 9, 8 >>

\* the 5 bytes of a TLS record header
RecordHeader(t, payload) == << t, 3, 3, Len(payload) \div 256, Len(payload) % 256 >>

\* the 5 bytes of an SSLv2 record header, the length's top bit cleared:
\* 2-byte length, message type, 2-byte version
Sslv2Header(payload) == << 0, Len(payload) + 3, 1, 3, 1 >>

\* the canonical parse of the handshake byte stream: feed bytes to the message
\* in progress; a message is complete when its body has the declared length
RECURSIVE GhostFeed(_, _, _)
GhostFeed(cur, done, bytes) ==
    IF bytes = << >> THEN [cur |-> cur, done |-> done]
    ELSE LET c == Append(cur, Head(bytes))
         IN  IF Len(c) >= TLS_HANDSHAKE_HEADER_LENGTH
                  /\ Len(c) = TLS_HANDSHAKE_HEADER_LENGTH + FromUint24(SubSeq(c, 2, 4))
             THEN GhostFeed(<< >>, Append(done, c), Tail(bytes))
             ELSE GhostFeed(c, done, Tail(bytes))

RECURSIVE Flatten(_)
Flatten(ss) == IF ss = << >> THEN << >> ELSE Head(ss) \o Flatten(Tail(ss))

\* the peer writes one more handshake message to its stream
PeerSend ==
    /\ pc = "read"
    /\ g.n_peer < MaxPeerMsgs
    /\ \E m \in PeerMessages : peer_q' = peer_q \o m
    /\ g' = [g EXCEPT !.n_peer = @ + 1]
    /\ UNCHANGED << pc, ret, blocked, mode, state, next_state, io, inb, header_in,
                    in_status, out, closed, hashes, ver, max_payload, wire >>

(***************************************************************************)
(* handshake_read_io                                                       *)
(***************************************************************************)
\* the history after validate_recv_state at the top of handshake_read_io
GRecv(h) ==
    [h EXCEPT !.asserts = IF validate_recv_state(state, mode) THEN @ ELSE @ \cup { "recv" },
              !.wb_reads = 0]

\* return -1 from s2n_negotiate
ReturnError(kind) ==
    /\ pc' = "idle"
    /\ ret' = kind

\* a driver that marks the connection closed on every failed read
ClosedOnAnyReadFailure(kind, c) == TRUE

\* conn->closed after s2n_read_full_record failed (lines 219-225): set only
\* when the peer closed the connection (r == -2)
ClosedAfterReadFailure(kind, c) == c \/ kind = "closed"

\* s2n_read_full_record fails: no complete record yet, a read error, or the
\* peer closed the connection (r == -2)
ReadFail ==
    /\ pc = "read"
    /\ \E kind \in { "would_block", "error", "closed" } :
        /\ ReturnError(IF kind = "closed" THEN "error" ELSE kind)
        /\ closed' = ClosedAfterReadFailure(kind, closed)
        /\ g' = [GRecv(g) EXCEPT !.wb_reads = IF kind = "would_block"
                                              THEN Min(g.wb_reads + 1, 2) ELSE 0]
    /\ UNCHANGED << blocked, mode, state, next_state, io, inb, header_in, in_status,
                    out, hashes, ver, max_payload, wire, peer_q >>

\* what the record-type dispatch does with a record whose payload is used up
\* (lines 259-336 with no data available in conn->in)
EmptyRecordReturns(t, alert_ok) ==
    IF t = TLS_APPLICATION_DATA \/ t = TLS_CHANGE_CIPHER_SPEC THEN "error"
    ELSE IF t = TLS_ALERT /\ ~alert_ok THEN "error"
    ELSE "ok"

\* the bytes of an SSLv2 record the driver hashes (lines 233-238)
Sslv2Hashed(hdr, payload) == << SubSeq(hdr, 3, 5), payload >>

\* an SSLv2-framed record (lines 227-254), then the record-type dispatch
ReadSSLv2 ==
    /\ pc = "read"
    /\ g.n_rec < MaxRecords
    /\ \E t \in Sslv2ReportedTypes, alert_ok \in BOOLEAN :
        LET hdr == Sslv2Header(Sslv2Body)
            g0 == [GRecv(g) EXCEPT !.n_rec = @ + 1]
            hashed == Sslv2Hashed(hdr, Sslv2Body)
        IN  IF state # CLIENT_HELLO THEN
                /\ ReturnError("error")
                /\ inb' = Sslv2Body
                /\ header_in' = hdr
                /\ in_status' = "PLAINTEXT"
                /\ g' = g0
                /\ UNCHANGED << blocked, mode, state, next_state, io, out, closed, hashes,
                                ver, max_payload, wire, peer_q >>
            ELSE
                \E res \in HandlerOutcomes("s2n_sslv2_client_hello_recv", ver,
                                           StufferWrite(io, Sslv2Body), next_state) :
                    LET g1 == [g0 EXCEPT
                                 !.expect = @ \o hashed[1] \o hashed[2],
                                 !.sslv2 = TRUE,
                                 !.clean = @ /\ g.gcur = << >>]
                    IN  /\ hashes' = s2n_conn_update_handshake_hashes(
                                         s2n_conn_update_handshake_hashes(hashes, hashed[1]),
                                         hashed[2])
                        /\ ver' = res.ver
                        /\ next_state' = res.next_state
                        /\ IF res.r < 0 THEN
                               \* GUARD(s2n_sslv2_client_hello_recv(conn)): return -1
                               /\ ReturnError("error")
                               /\ io' = res.io
                               /\ inb' = << >>
                               /\ header_in' = hdr
                               /\ in_status' = "PLAINTEXT"
                               /\ state' = state
                               /\ g' = [g1 EXCEPT !.rd_fail = "sslv2"]
                           ELSE
                               /\ inb' = << >>
                               /\ header_in' = << >>
                               /\ in_status' = "ENCRYPTED"
                               /\ state' = res.next_state
                               /\ io' = IF EmptyRecordReturns(t, alert_ok) = "ok"
                                        THEN AfterStep(res.next_state, Wiped) ELSE Wiped
                               /\ IF EmptyRecordReturns(t, alert_ok) = "ok"
                                  THEN pc' = "loop" /\ ret' = ret
                                  ELSE ReturnError("error")
                               /\ g' = [g1 EXCEPT
                                          !.asserts = IF validate_transition(state, res.next_state)
                                                      THEN @ ELSE @ \cup { "transition" },
                                          !.assigned = << state, res.next_state >>,
                                          !.advances = @ + 1,
                                          !.fell = t]
                        /\ UNCHANGED << blocked, mode, out, closed, max_payload, wire, peer_q >>

\* a record of type application_data
ReadApplicationData ==
    /\ pc = "read"
    /\ g.n_rec < MaxRecords
    /\ ReturnError("error")
    /\ inb' = << 5 >>
    /\ header_in' = RecordHeader(TLS_APPLICATION_DATA, << 5 >>)
    /\ in_status' = "PLAINTEXT"
    /\ g' = [GRecv(g) EXCEPT !.n_rec = @ + 1]
    /\ UNCHANGED << blocked, mode, state, next_state, io, out, closed, hashes, ver,
                    max_payload, wire, peer_q >>

\* a length test that accepts every change_cipher_spec record
AnyCcsLength(n) == TRUE

\* the length test of lines 262-264
CcsLengthOk(n) == n = 1

\* a change_cipher_spec record (lines 261-280); live: the record is the
\* message the state expects and its handler is well-behaved
ChangeCipherSpecRecord(live) ==
    /\ pc = "read"
    /\ IF live
       THEN Action(state).record_type = TLS_CHANGE_CIPHER_SPEC /\ peer_q = << >>
       ELSE g.n_rec < MaxRecords
    /\ \E payload \in (IF live THEN { << 1 >> } ELSE CcsPayloads) :
        LET g0 == [GRecv(g) EXCEPT !.n_rec = @ + 1]
        IN  IF ~CcsLengthOk(Len(payload)) THEN
                /\ ReturnError("error")
                /\ inb' = payload
                /\ header_in' = RecordHeader(TLS_CHANGE_CIPHER_SPEC, payload)
                /\ in_status' = "PLAINTEXT"
                /\ g' = g0
                /\ UNCHANGED << blocked, mode, state, next_state, io, out, closed, hashes,
                                ver, max_payload, wire, peer_q >>
            ELSE
                \E res \in Outcomes(live, HandlerOf(state, mode), state, ver,
                                    StufferWrite(io, payload), next_state) :
                    LET g1 == [g0 EXCEPT
                                 !.null_called = @ \/ HandlerOf(state, mode) = "NULL",
                                 !.clean = @ /\ g.gcur = << >>]
                    IN  IF res.ub THEN
                            /\ pc' = "crashed"
                            /\ g' = g1
                            /\ UNCHANGED << ret, blocked, mode, state, next_state, io, inb,
                                            header_in, in_status, out, closed, hashes, ver,
                                            max_payload, wire, peer_q >>
                        ELSE IF res.r < 0 THEN
                            \* GUARD(handler): return -1
                            /\ ReturnError("error")
                            /\ io' = res.io
                            /\ inb' = << >>
                            /\ header_in' = RecordHeader(TLS_CHANGE_CIPHER_SPEC, payload)
                            /\ in_status' = "PLAINTEXT"
                            /\ ver' = res.ver
                            /\ next_state' = res.next_state
                            /\ g' = [g1 EXCEPT !.rd_fail = "ccs"]
                            /\ UNCHANGED << blocked, mode, state, out, closed, hashes,
                                            max_payload, wire, peer_q >>
                        ELSE
                            /\ pc' = "loop"
                            /\ io' = AfterStep(res.next_state, Wiped)
                            /\ inb' = << >>
                            /\ header_in' = << >>
                            /\ in_status' = "ENCRYPTED"
                            /\ ver' = res.ver
                            /\ next_state' = res.next_state
                            /\ state' = res.next_state
                            /\ g' = [g1 EXCEPT
                                       !.asserts = IF validate_transition(state, res.next_state)
                                                   THEN @ ELSE @ \cup { "transition" },
                                       !.assigned = << state, res.next_state >>,
                                       !.advances = @ + 1]
                            /\ UNCHANGED << ret, blocked, mode, out, closed, hashes,
                                            max_payload, wire, peer_q >>

ReadChangeCipherSpec == ChangeCipherSpecRecord(FALSE)

\* a branch that drops the message under reassembly with the record
WipedAfterOtherRecord(st) == Wiped

\* handshake.io after a record of another type was discarded (lines 281-293
\* do not touch it)
IoAfterOtherRecord(st) == st

\* an alert record, or a record of a type that is not supported (lines 281-293)
ReadOther ==
    /\ pc = "read"
    /\ g.n_rec < MaxRecords
    /\ \E t \in OtherRecordTypes, alert_ok \in BOOLEAN :
        /\ IF t = TLS_ALERT /\ ~alert_ok THEN
               \* GUARD(s2n_process_alert_fragment(conn)): return -1
               /\ ReturnError("error")
               /\ inb' = << >>
               /\ header_in' = RecordHeader(t, << 2, 40 >>)
               /\ in_status' = "PLAINTEXT"
               /\ io' = io
           ELSE
               /\ pc' = "loop"
               /\ ret' = ret
               /\ inb' = << >>
               /\ header_in' = << >>
               /\ in_status' = "ENCRYPTED"
               /\ io' = AfterStep(state, IoAfterOtherRecord(io))
        /\ g' = [GRecv(g) EXCEPT !.n_rec = @ + 1,
                                 !.n_other = @ + 1,
                                 !.other_mid = @ \/ Avail(io) > 0,
                                 !.alert_failed = (t = TLS_ALERT /\ ~alert_ok)]
    /\ UNCHANGED << blocked, mode, state, next_state, out, closed, hashes, ver,
                    max_payload, wire, peer_q >>

\* the sizes of a handshake record cut from a stream of n bytes: every cut
\* within the first MaxSplit bytes of the message in progress, or all n bytes
RecordSizes(n, buffered) == { k \in 1 .. n : k + buffered <= MaxSplit \/ k = n }

\* a handshake record carrying the next k bytes of the peer's stream
ReadHandshake ==
    /\ pc = "read"
    /\ \E k \in RecordSizes(Len(peer_q), Avail(io)) :
        /\ inb' = Take(peer_q, k)
        /\ peer_q' = Drop(peer_q, k)
        /\ header_in' = RecordHeader(TLS_HANDSHAKE, Take(peer_q, k))
    /\ in_status' = "PLAINTEXT"
    /\ pc' = "hs_loop"
    /\ g' = GRecv(g)
    /\ UNCHANGED << ret, blocked, mode, state, next_state, io, out, closed, hashes, ver,
                    max_payload, wire >>

\* a reassembly that moves the whole rest of the record into handshake.io
TakesRestOfRecord(len, io_avail, in_avail) == in_avail

\* uint32_t bytes_to_take (lines 176-179):
\* the uint32_t difference wraps when the buffer holds more than len bytes,
\* to a value above anything a record can hold
BytesToTake(len, io_avail, in_avail) ==
    IF len < io_avail \/ len - io_avail > in_avail THEN in_avail ELSE len - io_avail

\* a check that lets every declared length through
NeverTooLong(len) == FALSE

\* the length check of lines 171-173
TooLong(len) == len > S2N_MAXIMUM_HANDSHAKE_MESSAGE_LENGTH

\* the bytes the read driver hashes for a complete message (lines 186-193)
HashedBlob(st, len) == SubSeq(st.buf, 1, TLS_HANDSHAKE_HEADER_LENGTH + len)

\* [r, io, inb, mtype, hashed]: the return value and effects of
\* read_full_handshake_message on handshake.io = st and in = bytes
read_full_handshake_message(st, bytes) ==
    LET cur == Avail(st)
        need == TLS_HANDSHAKE_HEADER_LENGTH - cur
    IN  IF cur < TLS_HANDSHAKE_HEADER_LENGTH /\ Len(bytes) < need THEN
            [r |-> 1, io |-> StufferWrite(st, bytes), inb |-> << >>,
             mtype |-> 0, hashed |-> << >>]
        ELSE
        LET n1 == IF cur < TLS_HANDSHAKE_HEADER_LENGTH THEN need ELSE 0
            st1 == StufferWrite(st, Take(bytes, n1))
            in1 == Drop(bytes, n1)
            hdr == Take(Unread(st1), TLS_HANDSHAKE_HEADER_LENGTH)
            mtype == hdr[1]
            len == FromUint24(SubSeq(hdr, 2, 4))
            st2 == StufferSkip(st1, TLS_HANDSHAKE_HEADER_LENGTH)
        IN  IF TooLong(len) THEN
                [r |-> -1, io |-> st2, inb |-> in1, mtype |-> mtype, hashed |-> << >>]
            ELSE
            LET n2 == BytesToTake(len, Avail(st2), Len(in1))
                st3 == StufferWrite(st2, Take(in1, n2))
                in2 == Drop(in1, n2)
            IN  IF Avail(st3) = len THEN
                    [r |-> 0, io |-> st3, inb |-> in2, mtype |-> mtype,
                     hashed |-> HashedBlob(st3, len)]
                ELSE
                    [r |-> 1, io |-> StufferReread(st3), inb |-> in2,
                     mtype |-> mtype, hashed |-> << >>]

\* a driver that leaves the handled message in handshake.io
KeptAfterHandler(st) == st

\* handshake.io after the handler of a reassembled message has run (line 317)
IoAfterHandler(st) == Wiped

\* whether the blinding delay runs when the handler of a message returned r
SleepsOnHandshakeFailure(r) == r < 0

\* a driver that hands a message of any type to the handler
AnyType(mtype, s) == TRUE

\* the message type test of lines 311-313
ExpectedType(mtype, s) == mtype = Action(s).message_type

\* one iteration of the loop of lines 296-329; live: the handler is
\* well-behaved
MessageStep(live) ==
    /\ pc = "hs_loop"
    /\ inb # << >>
    /\ LET m == read_full_handshake_message(io, inb)
           consumed == Take(inb, Len(inb) - Len(m.inb))
           fed == GhostFeed(g.gcur, << >>, consumed)
           h == HandlerOf(state, mode)
           g0 == [g EXCEPT
                    !.asserts = IF validate_recv_state(state, mode) THEN @ ELSE @ \cup { "recv" },
                    !.role_bad = @ \/ Action(state).writer = This(mode),
                    !.gcur = fed.cur,
                    !.expect = @ \o Flatten(fed.done),
                    !.rx = [r |-> m.r, gdone |-> fed.done,
                            handled |-> IF m.r = 0 THEN m.io.buf ELSE << >>],
                    !.msgs = @ + Len(fed.done)]
       IN  IF m.r < 0 THEN
               /\ ReturnError("error")
               /\ io' = m.io
               /\ inb' = m.inb
               /\ g' = g0
               /\ UNCHANGED << blocked, mode, state, next_state, header_in, in_status, out,
                               closed, hashes, ver, max_payload, wire, peer_q >>
           ELSE IF m.r = 1 THEN
               /\ pc' = "loop"
               /\ io' = AfterStep(state, m.io)
               /\ inb' = << >>
               /\ header_in' = << >>
               /\ in_status' = "ENCRYPTED"
               /\ g' = g0
               /\ UNCHANGED << ret, blocked, mode, state, next_state, out, closed, hashes,
                               ver, max_payload, wire, peer_q >>
           ELSE
               /\ hashes' = s2n_conn_update_handshake_hashes(hashes, m.hashed)
               /\ IF ~ExpectedType(m.mtype, state) THEN
                      /\ ReturnError("error")
                      /\ io' = m.io
                      /\ inb' = m.inb
                      /\ g' = g0
                      /\ UNCHANGED << blocked, mode, state, next_state, header_in, in_status,
                                      out, closed, ver, max_payload, wire, peer_q >>
                  ELSE
                      \E res \in Outcomes(live, h, state, ver, m.io, next_state) :
                          LET g1 == [g0 EXCEPT !.null_called = @ \/ h = "NULL",
                                               !.calls = @ + 1]
                          IN  IF res.ub THEN
                                  /\ pc' = "crashed"
                                  /\ io' = m.io
                                  /\ inb' = m.inb
                                  /\ g' = g1
                                  /\ UNCHANGED << ret, blocked, mode, state, next_state,
                                                  header_in, in_status, out, closed, ver,
                                                  max_payload, wire, peer_q >>
                              ELSE IF res.r < 0 THEN
                                  /\ ReturnError("error")
                                  /\ io' = IoAfterHandler(res.io)
                                  /\ inb' = m.inb
                                  /\ ver' = res.ver
                                  /\ next_state' = res.next_state
                                  /\ g' = [g1 EXCEPT
                                             !.delay = @ \/ SleepsOnHandshakeFailure(res.r),
                                             !.rd_fail = "handshake"]
                                  /\ UNCHANGED << blocked, mode, state, header_in, in_status,
                                                  out, closed, max_payload, wire, peer_q >>
                              ELSE
                                  /\ pc' = "hs_loop"
                                  /\ io' = IoAfterHandler(res.io)
                                  /\ inb' = m.inb
                                  /\ ver' = res.ver
                                  /\ next_state' = res.next_state
                                  /\ state' = res.next_state
                                  /\ g' = [g1 EXCEPT
                                             !.asserts =
                                                 IF validate_transition(state, res.next_state)
                                                 THEN @ ELSE @ \cup { "transition" },
                                             !.assigned = << state, res.next_state >>,
                                             !.advances = @ + 1]
                                  /\ UNCHANGED << ret, blocked, mode, header_in, in_status,
                                                  out, closed, max_payload, wire, peer_q >>

ReadMessage == MessageStep(FALSE)

\* the record is used up (lines 331-336)
ReadDone ==
    /\ pc = "hs_loop"
    /\ inb = << >>
    /\ pc' = "loop"
    /\ io' = AfterStep(state, io)
    /\ header_in' = << >>
    /\ in_status' = "ENCRYPTED"
    /\ UNCHANGED << ret, blocked, mode, state, next_state, inb, out, closed, hashes, ver,
                    max_payload, wire, peer_q, g >>

Next ==
    \/ CallNegotiate
    \/ NegotiateReturn
    \/ NegotiateFlushBlocked
    \/ NegotiateDispatch
    \/ handshake_write_io
    \/ PeerSend
    \/ ReadFail
    \/ ReadSSLv2
    \/ ReadApplicationData
    \/ ReadChangeCipherSpec
    \/ ReadOther
    \/ ReadHandshake
    \/ ReadMessage
    \/ ReadDone

Spec == Init /\ [][Next]_vars

(***************************************************************************)
(* A handshake in a well-behaved environment: the transport accepts every  *)
(* record and delivers every record, the peer sends the message each of    *)
(* its states expects, every handler succeeds with a next_state the        *)
(* validator accepts, and no message is longer than a record.              *)
(***************************************************************************)
\* the message a peer sends in state s
ExpectedMessage(s) ==
    IF s = SERVER_HELLO
    THEN Message(TLS_SERVER_HELLO, PeerHello(S2N_TLS12, << 0, 47 >>))
    ELSE Message(Action(s).message_type, << >>)

LiveInit ==
    /\ pc = "idle"
    /\ ret = "none"
    /\ blocked = "S2N_NOT_BLOCKED"
    /\ mode \in { S2N_SERVER, S2N_CLIENT }
    /\ state = CLIENT_HELLO
    /\ next_state = CLIENT_HELLO
    /\ io = Wiped
    /\ inb = << >>
    /\ header_in = << >>
    /\ in_status = "ENCRYPTED"
    /\ out = << >>
    /\ closed = FALSE
    /\ hashes = [d \in HashNames |-> << >>]
    /\ ver = VerInit
    /\ max_payload = LargePayload
    /\ wire = << >>
    /\ peer_q = << >>
    /\ g = GInit

\* the peer writes the handshake message the current state expects
LivePeerSend ==
    /\ pc = "read"
    /\ peer_q = << >>
    /\ Avail(io) = 0
    /\ Action(state).record_type = TLS_HANDSHAKE
    /\ g.n_peer < LiveMaxPeerMsgs
    /\ peer_q' = ExpectedMessage(state)
    /\ g' = [g EXCEPT !.n_peer = @ + 1]
    /\ UNCHANGED << pc, ret, blocked, mode, state, next_state, io, inb, header_in,
                    in_status, out, closed, hashes, ver, max_payload, wire >>

LiveWrite == WriteIo(TRUE)

LiveReadChangeCipherSpec == ChangeCipherSpecRecord(TRUE)

LiveReadMessage == MessageStep(TRUE)

LiveNext ==
    \/ CallNegotiate
    \/ NegotiateReturn
    \/ NegotiateDispatch
    \/ LiveWrite
    \/ LivePeerSend
    \/ LiveReadChangeCipherSpec
    \/ ReadHandshake
    \/ LiveReadMessage
    \/ ReadDone

\* the process runs while it can, the caller re-invokes s2n_negotiate, and the
\* peer and the transport do their part
LiveSpec == LiveInit /\ [][LiveNext]_vars /\ WF_vars(LiveNext)

(***************************************************************************)
(* A ServerHello round trip: a server connection runs                      *)
(* s2n_server_hello_send, the body it wrote is handed to a client          *)
(* connection that offered the version and the cipher suites the server    *)
(* chose from, and the client runs s2n_server_hello_recv on it.            *)
(***************************************************************************)
\* the versions a client offers and a server supports
RtVersions == { S2N_SSLv3, S2N_TLS10, S2N_TLS11, S2N_TLS12 }
\* the cipher suites the client offered
RtSuites == { << 0, 47 >>, << 0, 53 >> }
RtTimes == { 16909060, 1700000000 }
RtRandomTails == { Repeat(7, 28), [i \in 1 .. 28 |-> i] }
\* what s2n_server_extensions_send writes: nothing, or a sized extension block
RtExtensions == { << >>, << 0, 2, 5, 6 >> }

\* the server connection before it sends its ServerHello
RtInit ==
    /\ pc = "rt_send"
    /\ ret = "running"
    /\ blocked = "S2N_BLOCKED_ON_WRITE"
    /\ mode = S2N_SERVER
    /\ state = SERVER_HELLO
    /\ next_state = SERVER_HELLO
    /\ io = Wiped
    /\ inb = << >>
    /\ header_in = << >>
    /\ in_status = "ENCRYPTED"
    /\ out = << >>
    /\ closed = FALSE
    /\ hashes = [d \in HashNames |-> << >>]
    /\ \E c \in RtVersions, s \in RtVersions, cs \in RtSuites :
           ver = [VerInit EXCEPT !.client_protocol_version = c,
                                 !.server_protocol_version = s,
                                 !.actual_protocol_version = s,
                                 !.cipher_suite = cs]
    /\ max_payload = LargePayload
    /\ wire = << >>
    /\ peer_q = << >>
    /\ g = GInit

\* the server runs s2n_server_hello_send on an empty handshake.io
RtSend ==
    /\ pc = "rt_send"
    /\ \E t \in RtTimes, r \in RtRandomTails, e \in RtExtensions :
        LET res == s2n_server_hello_send(ver, io, next_state, t, r, e)
        IN  /\ ver' = res.ver
            /\ io' = res.io
            /\ next_state' = res.next_state
    /\ pc' = "rt_deliver"
    /\ UNCHANGED << ret, blocked, mode, state, inb, header_in, in_status, out, closed,
                    hashes, max_payload, wire, peer_q, g >>

\* the body reaches the client: from here the connection is the client's,
\* which offered the version the server saw and has not latched a version
RtDeliver ==
    /\ pc = "rt_deliver"
    /\ pc' = "rt_recv"
    /\ mode' = S2N_CLIENT
    /\ blocked' = "S2N_BLOCKED_ON_READ"
    /\ next_state' = SERVER_HELLO
    /\ io' = [buf |-> Unread(io), rd |-> 0]
    /\ ver' = [VerInit EXCEPT !.client_protocol_version = ver.client_protocol_version,
                              !.actual_protocol_version = ver.client_protocol_version]
    /\ g' = [g EXCEPT !.rt = [ver |-> ver, next_state |-> next_state]]
    /\ UNCHANGED << ret, state, inb, header_in, in_status, out, closed, hashes,
                    max_payload, wire, peer_q >>

\* the client runs s2n_server_hello_recv on the body
RtRecv ==
    /\ pc = "rt_recv"
    /\ LET res == s2n_server_hello_recv(ver, io, next_state, RtSuites, TRUE)
       IN  /\ ver' = res.ver
           /\ io' = res.io
           /\ next_state' = res.next_state
           /\ ret' = IF res.r = 0 THEN "ok" ELSE "error"
    /\ pc' = "rt_done"
    /\ UNCHANGED << blocked, mode, state, inb, header_in, in_status, out, closed,
                    hashes, max_payload, wire, peer_q, g >>

\* the version bytes a server of another implementation may answer with:
\* 3.0, 3.1, 3.3, the unknown 3.4, SSLv2's 2.0, and 28.6, which the
\* one-byte version field reads as 286 - 256 = 30
RtPeerVersionBytes ==
    { << 3, 0 >>, << 3, 1 >>, << 3, 3 >>, << 3, 4 >>, << 2, 0 >>, << 28, 6 >> }

\* the client is handed the ServerHello of another server instead: the same
\* body, but with a version that server chose without regard to the offer
RtPeerDeliver ==
    /\ pc = "rt_deliver"
    /\ pc' = "rt_peer_recv"
    /\ mode' = S2N_CLIENT
    /\ blocked' = "S2N_BLOCKED_ON_READ"
    /\ next_state' = SERVER_HELLO
    /\ \E b \in RtPeerVersionBytes :
           io' = [buf |-> b \o Drop(Unread(io), S2N_TLS_PROTOCOL_VERSION_LEN), rd |-> 0]
    /\ ver' = [VerInit EXCEPT !.client_protocol_version = ver.client_protocol_version,
                              !.actual_protocol_version = ver.client_protocol_version]
    /\ g' = [g EXCEPT !.rt = [ver |-> ver, next_state |-> next_state]]
    /\ UNCHANGED << ret, state, inb, header_in, in_status, out, closed, hashes,
                    max_payload, wire, peer_q >>

\* the client runs s2n_server_hello_recv on the other server's body
RtPeerRecv ==
    /\ pc = "rt_peer_recv"
    /\ LET res == s2n_server_hello_recv(ver, io, next_state, RtSuites, TRUE)
       IN  /\ ver' = res.ver
           /\ io' = res.io
           /\ next_state' = res.next_state
           /\ ret' = IF res.r = 0 THEN "ok" ELSE "error"
    /\ pc' = "rt_peer_done"
    /\ UNCHANGED << blocked, mode, state, inb, header_in, in_status, out, closed,
                    hashes, max_payload, wire, peer_q, g >>

RtNext ==
    \/ RtSend
    \/ RtDeliver
    \/ RtRecv
    \/ RtPeerDeliver
    \/ RtPeerRecv

RtSpec == RtInit /\ [][RtNext]_vars

(***************************************************************************)
(* C1. Every assignment state := next_state made by the driver has         *)
(* (state, next_state) among the pairs the transition validator accepts.   *)
(***************************************************************************)
C1_AssignedPairsLegal ==
    g.assigned # << >> => validate_transition(g.assigned[1], g.assigned[2])

(***************************************************************************)
(* C2. With every handler leaving a next_state the validator accepts, the  *)
(* driver never reassembles a message or runs a handler on received bytes  *)
(* in a state the local role writes, and the assertions of                 *)
(* validate_send_state and validate_recv_state hold at every call.         *)
(***************************************************************************)
C2_RoleDirection ==
    "transition" \notin g.asserts =>
        /\ ~g.role_bad
        /\ "send" \notin g.asserts
        /\ "recv" \notin g.asserts

(***************************************************************************)
(* C3. Each of the six transcript digests has absorbed exactly the         *)
(* handshake bytes written to records and the handshake messages received  *)
(* completely, in order and once each (an SSLv2 ClientHello as 3 header    *)
(* bytes and its body); no byte of another record type is absorbed.        *)
(***************************************************************************)
C3_TranscriptExact ==
    \A d \in HashNames : hashes[d] = g.expect

(***************************************************************************)
(* C4. While no record of another type interrupts a message: for every     *)
(* partition of a handshake message across handshake records,              *)
(* read_full_handshake_message reports "need more" (1) for every record    *)
(* that does not complete the message and 0 for the one that does, the     *)
(* buffer handed to the handler is the original header and body, and the   *)
(* handler has run once for every message received (the last call may be   *)
(* missing only when the driver returned an error).                        *)
(***************************************************************************)
C4_ReassemblyLossless ==
    g.clean =>
        /\ g.rx.r = 1 => g.rx.gdone = << >>
        /\ g.rx.r = 0 => g.rx.gdone = << g.rx.handled >>
        /\ g.rx.gdone # << >> => g.rx.r = 0
        /\ g.calls <= g.msgs
        /\ ret # "error" => g.calls = g.msgs

\* a message with a body, delivered in several records, the last of which
\* carries its last byte alone, has been handled
C4_Witness ==
    /\ g.clean
    /\ g.rx.r = 0
    /\ pc = "hs_loop"
    /\ header_in = RecordHeader(TLS_HANDSHAKE, << 0 >>)
    /\ Len(g.rx.handled) = TLS_HANDSHAKE_HEADER_LENGTH + MaxBody
    /\ g.calls = 1
    /\ g.msgs = 1
    /\ ret = "running"

(***************************************************************************)
(* C5. While the transport accepts every record, the header of an outbound *)
(* message is written and its handler called once per message, and the     *)
(* record payloads emitted for a message concatenate to the header and     *)
(* body first built for it.                                                *)
(***************************************************************************)
C5_FragmentsOfOneMessage ==
    /\ ~g.tx.wb => g.tx.builds <= 1
    /\ ~g.tx_last.wb => g.tx_last.builds <= 1 /\ g.tx_last.sent = g.tx_last.orig

(***************************************************************************)
(* C6. A message that fits one record and whose flush inside               *)
(* handshake_write_io reported would-block is not built again when         *)
(* s2n_negotiate is re-invoked: it is built once, and the payloads sent    *)
(* for it when the state advances are the message, once.                   *)
(***************************************************************************)
C6_ResumedWriteSendsOnce ==
    /\ g.tx.wb /\ Len(g.tx.orig) <= max_payload => g.tx.builds <= 1
    /\ g.tx_last.wb /\ Len(g.tx_last.orig) <= max_payload =>
           g.tx_last.builds <= 1 /\ g.tx_last.sent = g.tx_last.orig

(***************************************************************************)
(* C7. s2n_negotiate returns 0 only in HANDSHAKE_OVER, the state whose     *)
(* writer is 'B', and with blocked = S2N_NOT_BLOCKED; blocked is           *)
(* S2N_BLOCKED_ON_WRITE while a write step runs and S2N_BLOCKED_ON_READ    *)
(* while a read step runs, and every other return leaves the status of     *)
(* the step (or flush) it returned from.                                   *)
(***************************************************************************)
C7_ReturnAndBlockedStatus ==
    /\ ret = "ok" =>
           /\ state = HANDSHAKE_OVER
           /\ Action(state).writer = "B"
           /\ blocked = "S2N_NOT_BLOCKED"
    /\ pc = "write" => blocked = "S2N_BLOCKED_ON_WRITE"
    /\ pc \in { "read", "hs_loop" } => blocked = "S2N_BLOCKED_ON_READ"
    /\ ret \in { "would_block", "error" } =>
           /\ g.step \in { "write", "flush" } => blocked = "S2N_BLOCKED_ON_WRITE"
           /\ g.step = "read" => blocked = "S2N_BLOCKED_ON_READ"

\* a handshake that read and wrote has ended and s2n_negotiate returned 0
C7_Witness ==
    /\ ret = "ok"
    /\ pc = "idle"
    /\ state = HANDSHAKE_OVER
    /\ blocked = "S2N_NOT_BLOCKED"
    /\ g.n_builds > 0
    /\ g.msgs > 0

(***************************************************************************)
(* C9. Whenever a handler called by the read driver has failed (for a      *)
(* handshake message, a ChangeCipherSpec record or an SSLv2 ClientHello),  *)
(* s2n_sleep_delay ran before the error was returned.                      *)
(***************************************************************************)
C9_DelayOnHandlerFailure ==
    g.rd_fail # "none" => g.delay

(***************************************************************************)
(* C10. When actual_protocol_version_established is set,                   *)
(* actual_protocol_version lies between S2N_SSLv3 and S2N_TLS12, also      *)
(* after a ServerHello handler has returned an error.                      *)
(***************************************************************************)
C10_EstablishedVersionInRange ==
    ver.established =>
        /\ ver.actual_protocol_version >= S2N_SSLv3
        /\ ver.actual_protocol_version <= S2N_TLS12

(***************************************************************************)
(* C8. For either role, from CLIENT_HELLO, with a transport that accepts   *)
(* and delivers every record, a peer that sends the message each state     *)
(* expects and handlers that succeed with a legal next_state, the          *)
(* handshake goes on until s2n_negotiate has returned 0 in HANDSHAKE_OVER: *)
(* no run ends before that, with the process dead or with s2n_negotiate    *)
(* returning an error the caller does not retry.                           *)
(***************************************************************************)
C8_RunsUntilOver ==
    /\ pc # "crashed"
    /\ ret # "error"

(***************************************************************************)
(* C11. An SSLv2-framed ClientHello record is accepted only in             *)
(* CLIENT_HELLO: in any other state the read fails with the transcript     *)
(* and the state unchanged.  When a server accepts it and the SSLv2        *)
(* handler leaves next_state = SERVER_HELLO, the digests absorb 3 header   *)
(* bytes and the body, the state becomes SERVER_HELLO and the read         *)
(* returns success, whatever record type the record layer reported for     *)
(* the record.                                                             *)
(***************************************************************************)
C11_Sslv2ClientHelloOnce ==
    [][ /\ (pc = "read" /\ state # CLIENT_HELLO /\ header_in' = Sslv2Header(Sslv2Body)) =>
               /\ ret' = "error"
               /\ state' = state
               /\ hashes' = hashes
        /\ (g.fell = 0 /\ g'.fell # 0 /\ mode = S2N_SERVER /\ next_state' = SERVER_HELLO) =>
               /\ state' = SERVER_HELLO
               /\ hashes' = s2n_conn_update_handshake_hashes(
                                hashes, SubSeq(Sslv2Header(Sslv2Body), 3, 5) \o Sslv2Body)
               /\ pc' = "loop"
               /\ ret' # "error" ]_vars

(***************************************************************************)
(* C12. In a handshake whose every transition is one the validator         *)
(* accepts, the drivers never call a handler that is absent (NULL) in the  *)
(* descriptor of the current state: such a state is passed through.        *)
(***************************************************************************)
C12_NoNullHandlerCalled ==
    "transition" \notin g.asserts => ~g.null_called

(***************************************************************************)
(* C13. While no record of another type interrupts a message: when the     *)
(* bytes received complete a handshake header whose declared length is     *)
(* above S2N_MAXIMUM_HANDSHAKE_MESSAGE_LENGTH, the read driver returns an   *)
(* error, no handler runs, the digests are not updated and the state and   *)
(* next_state stay as they are.                                            *)
(***************************************************************************)
C13_OverLengthRejected ==
    [][ (/\ pc = "hs_loop"
         /\ g.clean
         /\ Len(g.gcur) < TLS_HANDSHAKE_HEADER_LENGTH
         /\ Len(g.gcur \o inb) >= TLS_HANDSHAKE_HEADER_LENGTH
         /\ FromUint24(SubSeq(g.gcur \o inb, 2, 4)) > S2N_MAXIMUM_HANDSHAKE_MESSAGE_LENGTH) =>
            /\ pc' = "idle"
            /\ ret' = "error"
            /\ g'.calls = g.calls
            /\ hashes' = hashes
            /\ state' = state
            /\ next_state' = next_state ]_vars

\* an over-length header whose last byte came in a record of its own was refused
C13_Witness ==
    /\ ret = "error"
    /\ pc = "idle"
    /\ g.clean
    /\ g.gcur = << TLS_SERVER_HELLO >> \o Uint24(S2N_MAXIMUM_HANDSHAKE_MESSAGE_LENGTH + 1)
    /\ header_in = RecordHeader(TLS_HANDSHAKE, << 1 >>)
    /\ g.calls = 0

(***************************************************************************)
(* C14. A change_cipher_spec record whose payload is not exactly one byte  *)
(* makes handshake_read_io return an error with no handler run: state,     *)
(* next_state, handshake.io and the version fields stay as they are.       *)
(***************************************************************************)
C14_CcsLengthChecked ==
    [][ (/\ pc = "read"
         /\ Len(header_in') = 5
         /\ header_in'[1] = TLS_CHANGE_CIPHER_SPEC
         /\ FromUint16(SubSeq(header_in', 4, 5)) # 1) =>
            /\ pc' = "idle"
            /\ ret' = "error"
            /\ state' = state
            /\ next_state' = next_state
            /\ io' = io
            /\ ver' = ver
            /\ g'.null_called = g.null_called ]_vars

\* a change_cipher_spec record of two bytes was refused
C14_Witness ==
    /\ ret = "error"
    /\ pc = "idle"
    /\ header_in = RecordHeader(TLS_CHANGE_CIPHER_SPEC, << 1, 1 >>)
    /\ inb = << 1, 1 >>

C16_BlockedReadChangesNothing ==
    [][ /\ (pc = "idle" \/ (pc = "loop" /\ pc' = "read")
                \/ (pc = "read" /\ ret' = "would_block")) =>
               UNCHANGED << mode, state, next_state, io, inb, header_in, in_status, out,
                            closed, hashes, ver, max_payload, wire >>
        /\ (pc = "loop" /\ pc' = "read") => blocked' = "S2N_BLOCKED_ON_READ"
        /\ (pc = "read" /\ ret' = "would_block") =>
               /\ pc' = "idle"
               /\ blocked = "S2N_BLOCKED_ON_READ"
               /\ blocked' = blocked ]_vars

\* s2n_negotiate has returned would-block from the read step twice in a row
\* with a partial message in handshake.io
C16_Witness ==
    /\ pc = "idle"
    /\ ret = "would_block"
    /\ blocked = "S2N_BLOCKED_ON_READ"
    /\ g.step = "read"
    /\ g.wb_reads = 2
    /\ Avail(io) > 0

(***************************************************************************)
(* C17. Every return of handshake_read_io and handshake_write_io that ends *)
(* the processing of a record or message leaves the record buffers wiped:  *)
(* on success header_in and in are empty, and on a fatal error (wrong      *)
(* message type, over-length body, bad change_cipher_spec length,          *)
(* application data, handler failure) header_in, in, out and handshake.io  *)
(* are all empty.                                                          *)
(***************************************************************************)
C17_BuffersWipedOnExit ==
    [][ /\ (pc \in { "read", "hs_loop" } /\ pc' = "loop") =>
               /\ header_in' = << >>
               /\ inb' = << >>
               /\ in_status' = "ENCRYPTED"
        /\ (/\ ret' = "error"
            /\ \/ pc \in { "hs_loop", "write" }
               \/ pc = "read" /\ g'.n_rec > g.n_rec) =>
               /\ header_in' = << >>
               /\ inb' = << >>
               /\ out' = << >>
               /\ io' = Wiped ]_vars

(***************************************************************************)
(* C18. Round trip: the body written by s2n_server_hello_send is accepted  *)
(* by s2n_server_hello_recv on a client that offered the same cipher       *)
(* suites, and leaves the client with the server's                         *)
(* actual_protocol_version, 32-byte server_random and cipher suite, with   *)
(* next_state = SERVER_CERT on both sides.                                 *)
(***************************************************************************)
C18_ServerHelloRoundTrip ==
    pc = "rt_done" =>
        /\ ret = "ok"
        /\ ver.actual_protocol_version = g.rt.ver.actual_protocol_version
        /\ ver.established /\ g.rt.ver.established
        /\ ver.server_random = g.rt.ver.server_random
        /\ Len(ver.server_random) = S2N_TLS_RANDOM_DATA_LEN
        /\ ver.cipher_suite = g.rt.ver.cipher_suite
        /\ ver.signature_digest_alg = g.rt.ver.signature_digest_alg
        /\ next_state = SERVER_CERT
        /\ g.rt.next_state = SERVER_CERT
        /\ Avail(io) = 0

\* a TLS 1.0 client has accepted the ServerHello, with extensions, of a
\* TLS 1.2 server that chose the second suite
C18_Witness ==
    /\ pc = "rt_done"
    /\ ret = "ok"
    /\ g.rt.ver.server_protocol_version = S2N_TLS12
    /\ ver.actual_protocol_version = S2N_TLS10
    /\ ver.cipher_suite = << 0, 53 >>
    /\ ver.server_random = Uint32(1700000000) \o [i \in 1 .. 28 |-> i]
    /\ Len(io.buf) = 42

(***************************************************************************)
(* C19. A handshake record that carries several complete messages is       *)
(* consumed by one call of handshake_read_io, message by message: for each *)
(* complete message at the head of the record whose type is the one the    *)
(* current state expects and whose handler succeeds, the handler runs      *)
(* once, the digests absorb the message once, the state advances to the    *)
(* next_state the handler left, and the rest of the record is processed    *)
(* in the same call; when the record is used up its buffers are wiped.     *)
(***************************************************************************)
C19_MessagesOfOneRecord ==
    [][ /\ (/\ pc = "hs_loop"
            /\ g.gcur = << >>
            /\ Avail(io) = 0
            /\ Len(inb) >= TLS_HANDSHAKE_HEADER_LENGTH
            /\ Len(inb) >= TLS_HANDSHAKE_HEADER_LENGTH + FromUint24(SubSeq(inb, 2, 4))
            /\ inb[1] = Action(state).message_type
            /\ pc' # "crashed"
            /\ ret' # "error") =>
               LET n == TLS_HANDSHAKE_HEADER_LENGTH + FromUint24(SubSeq(inb, 2, 4))
               IN  /\ pc' = "hs_loop"
                   /\ g'.calls = g.calls + 1
                   /\ g'.msgs = g.msgs + 1
                   /\ hashes' = s2n_conn_update_handshake_hashes(hashes, Take(inb, n))
                   /\ state' = next_state'
                   /\ g'.assigned = << state, state' >>
                   /\ inb' = Drop(inb, n)
                   /\ io' = Wiped
        /\ (pc = "hs_loop" /\ inb = << >>) =>
               /\ pc' = "loop"
               /\ header_in' = << >>
               /\ in_status' = "ENCRYPTED" ]_vars

\* a client has handled a ServerHello and a Certificate message that came in
\* one record, with two handler calls and two state advances
C19_Witness ==
    /\ pc = "hs_loop"
    /\ mode = S2N_CLIENT
    /\ inb = << >>
    /\ header_in = RecordHeader(TLS_HANDSHAKE,
                       Message(TLS_SERVER_HELLO, PeerHello(S2N_TLS12, << 0, 47 >>))
                           \o Message(TLS_SERVER_CERT, << >>))
    /\ g.calls = 2
    /\ g.msgs = 2
    /\ g.assigned = << SERVER_CERT, SERVER_KEY >>
    /\ state = SERVER_KEY
    /\ hashes["client_sha256"] = g.expect
    /\ "transition" \notin g.asserts

(***************************************************************************)
(* C20. While no record of another type interrupts a message: when the     *)
(* bytes received complete a handshake message whose type is not the       *)
(* message_type of the current state, handshake_read_io returns an error,  *)
(* the handler of the state is not called, and state, next_state and the   *)
(* version fields stay as they are.                                        *)
(***************************************************************************)
C20_WrongTypeRejected ==
    [][ (/\ pc = "hs_loop"
         /\ g.clean
         /\ g'.msgs = g.msgs + 1
         /\ g'.rx.gdone[1][1] # Action(state).message_type) =>
            /\ pc' = "idle"
            /\ ret' = "error"
            /\ g'.calls = g.calls
            /\ g'.null_called = g.null_called
            /\ state' = state
            /\ next_state' = next_state
            /\ ver' = ver ]_vars

\* a message with a body, of a type the state does not expect and delivered
\* in several records, was refused without a handler call
C20_Witness ==
    /\ pc = "idle"
    /\ ret = "error"
    /\ g.clean
    /\ g.rx.r = 0
    /\ g.rx.gdone = << g.rx.handled >>
    /\ g.rx.handled[1] # Action(state).message_type
    /\ Len(g.rx.handled) = TLS_HANDSHAKE_HEADER_LENGTH + MaxBody
    /\ header_in = RecordHeader(TLS_HANDSHAKE, << 0 >>)
    /\ g.msgs = 1
    /\ g.calls = 0

(***************************************************************************)
(* C21. After s2n_server_hello_send has succeeded the server's             *)
(* actual_protocol_version is the smaller of client_protocol_version and   *)
(* server_protocol_version, and the first two bytes of the body are that   *)
(* version as major, minor.  After s2n_server_hello_recv has succeeded the *)
(* client's actual_protocol_version is at most the version the client      *)
(* offered and equals its server_protocol_version, the version the body    *)
(* names.                                                                  *)
(***************************************************************************)
C21_VersionChosen ==
    /\ pc = "rt_deliver" =>
        /\ ver.actual_protocol_version =
               Min(ver.client_protocol_version, ver.server_protocol_version)
        /\ Take(io.buf, S2N_TLS_PROTOCOL_VERSION_LEN) =
               << ver.actual_protocol_version \div 10, ver.actual_protocol_version % 10 >>
        /\ WireVersion(Take(io.buf, S2N_TLS_PROTOCOL_VERSION_LEN)) = ver.actual_protocol_version
    /\ (pc \in { "rt_done", "rt_peer_done" } /\ ret = "ok") =>
        /\ ver.actual_protocol_version <= ver.client_protocol_version
        /\ ver.actual_protocol_version <= g.rt.ver.client_protocol_version
        /\ ver.actual_protocol_version = ver.server_protocol_version
        /\ ver.actual_protocol_version =
               WireVersion(Take(io.buf, S2N_TLS_PROTOCOL_VERSION_LEN))

\* a TLS 1.2 server has answered a TLS 1.1 offer with TLS 1.1, and the
\* TLS 1.1 client has accepted another server's ServerHello that names 3.0
C21_Witness ==
    /\ pc = "rt_peer_done"
    /\ ret = "ok"
    /\ g.rt.ver.server_protocol_version = S2N_TLS12
    /\ g.rt.ver.client_protocol_version = S2N_TLS11
    /\ g.rt.ver.actual_protocol_version = S2N_TLS11
    /\ ver.client_protocol_version = S2N_TLS11
    /\ ver.actual_protocol_version = S2N_SSLv3
    /\ Take(io.buf, S2N_TLS_PROTOCOL_VERSION_LEN) = << 3, 0 >>

(***************************************************************************)
(* C22. The read driver runs the handler of the current state on a record  *)
(* only when the record's content type is the record_type of that state:   *)
(* a change_cipher_spec record taken in a state whose record_type is       *)
(* handshake reaches no handler and leaves state, next_state and the       *)
(* negotiated parameters alone, and a handler call on a reassembled        *)
(* handshake message happens only in a state whose record_type is          *)
(* handshake.                                                              *)
(***************************************************************************)
C22_HandlerOnlyForOwnRecordType ==
    [][ /\ (ReadChangeCipherSpec /\ Action(state).record_type # TLS_CHANGE_CIPHER_SPEC) =>
               /\ state' = state
               /\ next_state' = next_state
               /\ ver' = ver
               /\ g'.assigned = g.assigned
               /\ g'.rd_fail = g.rd_fail
               /\ g'.null_called = g.null_called
               /\ pc' # "crashed"
        /\ (ReadMessage /\ g'.calls = g.calls + 1) =>
               Action(state).record_type = TLS_HANDSHAKE ]_vars

(***************************************************************************)
(* C23. Once state is HANDSHAKE_OVER the driver does nothing more: no step *)
(* taken in that state is an iteration of the message loop of              *)
(* handshake_read_io (which calls read_full_handshake_message and with it  *)
(* validate_recv_state, matches the message type against the descriptor    *)
(* of the state and calls its handler), a change_cipher_spec step or a     *)
(* step of handshake_write_io, and no step taken in that state reassembles *)
(* a message, calls a handler, fails a validate_*_state assertion or       *)
(* assigns the state.                                                      *)
(***************************************************************************)
C23_NothingAfterHandshakeOver ==
    [][ state = HANDSHAKE_OVER =>
            /\ ~ReadMessage
            /\ ~ReadChangeCipherSpec
            /\ ~handshake_write_io
            /\ state' = state
            /\ g'.msgs = g.msgs
            /\ g'.calls = g.calls
            /\ g'.null_called = g.null_called
            /\ g'.assigned = g.assigned
            /\ g'.asserts \ { "transition" } = g.asserts \ { "transition" } ]_vars

(***************************************************************************)
(* C24. While every transition made so far has passed validate_transition, *)
(* each assignment state := next_state made before HANDSHAKE_OVER moves    *)
(* the state to a later position of the enumeration; the number of         *)
(* assignments made never exceeds the position reached, so no state is     *)
(* entered twice and a handshake makes at most 14 assignments.             *)
(***************************************************************************)
C24_StateStrictlyIncreases ==
    [][ ( /\ "transition" \notin g'.asserts
          /\ g'.advances = g.advances + 1
          /\ state # HANDSHAKE_OVER ) =>
            /\ state' > state
            /\ g'.assigned = << state, state' >>
            /\ g'.advances <= state'
            /\ g'.advances <= HANDSHAKE_OVER ]_vars

\* a handshake has come to its end through ten transitions, all of which
\* passed validate_transition
C24_Witness ==
    /\ state = HANDSHAKE_OVER
    /\ "transition" \notin g.asserts
    /\ g.assigned = << SERVER_FINISHED, HANDSHAKE_OVER >>
    /\ g.advances = 10

====
